---- MODULE Spec2Model ----
(***************************************************************************)
(* LogiFlow event distribution: the Realtime Gateway (realtime-service),   *)
(* the broker topology, the publish step embedded in the pedido / fleet    *)
(* repositories, and the Notification Consumer (notification-service)      *)
(* with its query endpoints.                                               *)
(*                                                                         *)
(* The Gateway's coroutines run on one asyncio event loop: the code        *)
(* between two awaits of a handler is one action.  The broker consumer     *)
(* (_rabbit_consumer) runs in its own thread (start_rabbit), so its steps  *)
(* interleave with the event loop at statement granularity; the            *)
(* event-loop blocks whose intermediate state the thread can tell apart    *)
(* (registration then welcome; the subscribe block, discard then add) are  *)
(* split in two steps.                                                     *)
(***************************************************************************)
EXTENDS Integers, Sequences, FiniteSets, TLC

\* ------------------------------------------------------------- bounds
NConns == 2
MaxEvents == 2
MaxMsgs == 1
MaxCalls == 2
MaxAttempts == 2
MaxRestarts == 1
MaxRecords == 2

Conns == 1..NConns
EventIds == 1..MaxEvents

\* ------------------------------------------------- topics and events
\* A topic / routing key is its dot-delimited segments.
T_location == <<"realtime", "location">>
T_pattern == <<"pedido", "estado", "*">>
T_actualizado == <<"pedido", "estado", "actualizado">>
T_creado == <<"pedido", "creado">>
T_other == <<"other">>
T_location_update == <<"location_update">>

\* websocket_endpoint: ws.query_params.get("topic") or "realtime.location"
DefaultTopic == T_location

\* The topics a client names (query parameter or subscribe message).
SubTopics == {T_location, T_pattern, T_actualizado, T_other}

\* The envelopes the producers emit: the "type" field and the routing key.
EvCreado == [type |-> T_creado, rk |-> T_creado]
EvEstado == [type |-> T_actualizado, rk |-> T_actualizado]
EvLocation == [type |-> T_location_update, rk |-> T_location]
ProducerEvents == {EvCreado, EvEstado, EvLocation}

\* Topic-exchange binding match: "*" matches exactly one segment.
Matches(pattern, key) ==
    /\ Len(pattern) = Len(key)
    /\ \A i \in 1..Len(pattern) : pattern[i] = "*" \/ pattern[i] = key[i]

\* The Gateway's queue and its binding.
GatewayQueue == "realtime.broadcast"
GatewayBinding == <<"realtime", "*">>

VARIABLES
    connections,        \* realtime main.py: connections
    topic_subscribers,  \* realtime main.py: topic_subscribers (values)
    hpc,                \* position of each websocket_endpoint coroutine
    cred,               \* what each connection attempt presents
    alive,              \* the transport of a connection is open
    htopic,             \* local `topic` of a handler in its subscribe block
    welcomed,           \* connections that were sent the welcome frame
    msgs,               \* client messages processed so far
    ppc, pev, ptopic, ptodo, pdead, psent, presp,  \* publish_event
    queue,              \* messages waiting in realtime.broadcast
    bpc, bmsg, btopic, bdead,  \* consumer callback
    bmatched,           \* live connections subscribed to a topic matching
                        \* the routing key when the callback looked it up
    nextEv,             \* next event id
    copies,             \* copies[c][e]: frames of event e sent to c
    published,          \* published[e]: routing key of event e on the exchange
                        \* and the connections subscribed to a matching
                        \* topic when it was published
    atPublish,          \* atPublish[e]: while event e is in flight, the
                        \* connections that had registered when it was
                        \* published
    backs               \* backs[e]: basic_ack calls of the Gateway for event e

VARIABLES
    op,                 \* repository operation in progress
    upd,                \* its update_data: the fields provided, with values
    target,             \* the id it is called with
    rpc,                \* position inside the operation
    session,            \* the row as changed in the session, not yet committed
    pedido,             \* committed row of pedido 1 (NoRow if absent)
    repartidor,         \* committed row of repartidor 1
    before,             \* committed row of the target when the call started
    result,             \* how the last call ended
    exchange,           \* events basic_publish handed to logiflow.events
    posts,              \* envelopes POSTed to /api/ws/publish
    callPub,            \* basic_publish succeeded in this call
    callPost,           \* the fallback POST of this call: none, ok, failed
    calls               \* calls made so far

VARIABLES
    brokerUp,           \* the broker accepts connections
    npc,                \* position of the Notification Consumer's thread
    attempts,           \* failed connection attempts of its retry loop
    restarts,           \* restarts of the consumer processes so far
    topo,               \* the broker's exchanges, queues and bindings
    gpc,                \* position of the Gateway's thread in its declarations
    nqueue,             \* messages waiting in notification.pedido
    nmsg,               \* the message the notification callback is handling
    records,            \* the notifications table, in insertion order
    nacks,              \* nacks[e]: basic_ack calls of the consumer for event e
    ntries,             \* ntries[e]: outcomes of the persistence attempts
                        \* completed for event e
    npub,               \* npub[e]: what was published as event e, and whether
                        \* the consumer's bindings existed then
    qreq,               \* the last query request
    qresp               \* its response

pvars == <<op, upd, target, rpc, session, pedido, repartidor, before, result,
           exchange, posts, callPub, callPost, calls>>

gvars == <<connections, topic_subscribers, hpc, cred, alive, htopic, welcomed,
           msgs, ppc, pev, ptopic, ptodo, pdead, psent, presp,
           queue, bpc, bmsg, btopic, bdead, bmatched, nextEv, copies,
           published, atPublish, backs>>

nvars == <<brokerUp, npc, attempts, restarts, topo, gpc, nqueue, nmsg, records,
           nacks, ntries, npub, qreq, qresp>>

vars == <<gvars, pvars, nvars>>

NoEvent == [id |-> 0, type |-> <<>>, rk |-> <<>>]

NoPublish == [rk |-> <<>>, subs |-> {}]

\* topic_subscribers.get(topic, set()): a topic nobody named has no set.
Subs(t) == IF t \in SubTopics THEN topic_subscribers[t] ELSE {}

\* The topics whose subscriber set holds c.
TopicsOf(c) == {t \in SubTopics : c \in topic_subscribers[t]}

\* A handler that suspends between registering the connection and sending
\* the welcome frame.
LoopFreeWelcomeAwaited == \A c \in Conns : hpc[c] # "sub_mid"

\* No coroutine is inside an event-loop block: lines 69-77 (register, then
\* the welcome send) and lines 89-93 (discard, add, then the ack) hold no
\* await before their send.
LoopFree == \A c \in Conns : hpc[c] \notin {"sub_mid", "welcome"}

GInit ==
    /\ connections = {}
    /\ topic_subscribers = [t \in SubTopics |-> {}]
    /\ hpc = [c \in Conns |-> "new"]
    /\ cred = [c \in Conns |-> "none"]
    /\ alive = [c \in Conns |-> FALSE]
    /\ htopic = [c \in Conns |-> <<>>]
    /\ welcomed = {}
    /\ msgs = 0
    /\ ppc = "idle" /\ pev = NoEvent /\ ptopic = <<>>
    /\ ptodo = {} /\ pdead = {} /\ psent = {}
    /\ presp = [topic |-> <<>>, delivered |-> 0, id |-> 0]
    /\ queue = <<>>
    /\ bpc = "idle" /\ bmsg = NoEvent /\ btopic = <<>>
    /\ bdead = {} /\ bmatched = {}
    /\ nextEv = 1
    /\ copies = [c \in Conns |-> [e \in EventIds |-> 0]]
    /\ published = [e \in EventIds |-> NoPublish]
    /\ atPublish = [e \in EventIds |-> {}]
    /\ backs = [e \in EventIds |-> 0]


PUnch ==
    UNCHANGED <<ppc, pev, ptopic, ptodo, pdead, psent, presp, pvars, nvars>>

BUnch ==
    UNCHANGED <<queue, bpc, bmsg, btopic, bdead, bmatched, backs, pvars>>

EUnch == UNCHANGED <<nextEv, copies, published, atPublish>>

HUnch == PUnch /\ BUnch /\ EUnch

\* ------------------------------------------------ websocket_endpoint
\* What a connection attempt presents: no Authorization header, a header
\* that is not "Bearer ...", a token the auth service answers non-200 for,
\* a token whose verification call itself fails, or a valid token.
Creds == {"missing", "malformed", "invalid", "autherror", "valid"}

\* Line 57: not auth_header or not auth_header.startswith("Bearer ")
HeaderOk(k) == k \notin {"missing", "malformed"}

\* Lines 56-60: the Authorization header; a bad one closes with 1008.
Handshake(c) ==
    /\ LoopFree
    /\ hpc[c] = "new"
    /\ IF c = 1 THEN TRUE ELSE hpc[c - 1] # "new"
    /\ \E k \in Creds :
         /\ cred' = [cred EXCEPT ![c] = k]
         /\ hpc' = [hpc EXCEPT ![c] = IF HeaderOk(k) THEN "verify"
                                      ELSE "rejected"]
    /\ UNCHANGED <<connections, topic_subscribers, alive, htopic,
                   welcomed, msgs>>
    /\ HUnch

\* verify_token_with_auth without the status check of line 42.
VerifyOutcomeIgnoresStatus(k) ==
    CASE k = "valid" -> "accept"
      [] k = "invalid" -> "accept"
      [] OTHER -> "failed"

\* Lines 37-45 and 62-66, verify_token_with_auth: 200 returns the claims;
\* non-200 raises HTTPException, which is caught (close 1008, return);
\* a failure of the call itself is no HTTPException and leaves the handler
\* before ws.accept().
VerifyOutcome(k) ==
    CASE k = "valid" -> "accept"
      [] k = "invalid" -> "rejected"
      [] OTHER -> "failed"

Verify(c) ==
    /\ LoopFree
    /\ hpc[c] = "verify"
    /\ hpc' = [hpc EXCEPT ![c] = VerifyOutcome(cred[c])]
    /\ UNCHANGED <<connections, topic_subscribers, alive, htopic,
                   welcomed, msgs, cred>>
    /\ HUnch

\* Lines 68-72: accept, register, subscribe to the initial topic (the query
\* parameter or the default).
Accept(c) ==
    /\ LoopFree
    /\ hpc[c] = "accept"
    /\ \E t \in SubTopics :
         /\ connections' = connections \cup {c}
         /\ topic_subscribers' =
              [topic_subscribers EXCEPT ![t] = @ \cup {c}]
    /\ alive' = [alive EXCEPT ![c] = TRUE]
    /\ hpc' = [hpc EXCEPT ![c] = "welcome"]
    /\ UNCHANGED <<htopic, msgs, cred, welcomed>>
    /\ HUnch

\* Line 77: the welcome frame is sent; the handler then waits in
\* receive_text.
Welcome(c) ==
    /\ hpc[c] = "welcome"
    /\ welcomed' = welcomed \cup {c}
    /\ hpc' = [hpc EXCEPT ![c] = "recv"]
    /\ UNCHANGED <<connections, topic_subscribers, alive, htopic, msgs, cred>>
    /\ HUnch

\* Lines 98-107: both except clauses remove the connection everywhere.
Removed(c) ==
    /\ connections' = connections \ {c}
    /\ topic_subscribers' = [t \in SubTopics |-> topic_subscribers[t] \ {c}]
    /\ hpc' = [hpc EXCEPT ![c] = "closed"]

\* The subscribe block without lines 89-91.
SubscribeDiscardKeepsOld(c, topic) == topic_subscribers

\* Lines 89-91: discard from every other topic.
SubscribeDiscard(c, topic) ==
    [t \in SubTopics |->
        IF t # topic THEN topic_subscribers[t] \ {c} ELSE topic_subscribers[t]]

\* Lines 80-97: receive_text returns a frame or raises WebSocketDisconnect.
\* A subscribe message enters the subscribe block; any other message is
\* echoed back.
Receive(c) ==
    /\ LoopFree
    /\ hpc[c] = "recv"
    /\ IF ~alive[c]
       THEN /\ Removed(c)
            /\ UNCHANGED <<htopic, msgs>>
       ELSE /\ msgs < MaxMsgs
            /\ msgs' = msgs + 1
            /\ \/ \E topic \in SubTopics :
                    /\ topic_subscribers' = SubscribeDiscard(c, topic)
                    /\ htopic' = [htopic EXCEPT ![c] = topic]
                    /\ hpc' = [hpc EXCEPT ![c] = "sub_mid"]
               \/ UNCHANGED <<topic_subscribers, htopic, hpc>>
            /\ UNCHANGED connections
    /\ UNCHANGED <<alive, welcomed, cred>>
    /\ HUnch

\* Lines 92-93: add to the new topic and send the subscribed ack.
SubscribeAdd(c) ==
    /\ hpc[c] = "sub_mid"
    /\ topic_subscribers' =
         [topic_subscribers EXCEPT ![htopic[c]] = @ \cup {c}]
    /\ htopic' = [htopic EXCEPT ![c] = <<>>]
    /\ hpc' = [hpc EXCEPT ![c] = "recv"]
    /\ UNCHANGED <<connections, alive, welcomed, msgs, cred>>
    /\ HUnch

\* The transport of a connection closes (the client went away).
ClientDrop(c) ==
    /\ LoopFree
    /\ alive[c]
    /\ alive' = [alive EXCEPT ![c] = FALSE]
    /\ UNCHANGED <<connections, topic_subscribers, hpc, htopic,
                   welcomed, msgs, cred>>
    /\ HUnch

\* ----------------------------------------------------- publish_event
\* An envelope that carries no "type".
EvUntyped == [type |-> <<>>, rk |-> <<>>]

\* The envelopes POSTed to /api/ws/publish.
HttpEnvelopes == ProducerEvents \cup {EvUntyped}

\* Line 115: event.get("type", "realtime.location")
HttpTopic(e) == IF e.type = <<>> THEN DefaultTopic ELSE e.type

\* Lines 119-122: one send of the sweep; a failed send marks the
\* connection dead.
PublishSendTo(w, id) ==
    IF alive[w]
    THEN /\ copies' = [copies EXCEPT ![w][id] = @ + 1]
         /\ psent' = psent \cup {w}
         /\ UNCHANGED pdead
    ELSE /\ pdead' = pdead \cup {w}
         /\ UNCHANGED <<copies, psent>>

\* A sweep that leaves its dead connections subscribed.
ReapSubsNothing(topic, dead) == topic_subscribers

\* Lines 123-125 on the set looked up at line 116.
ReapSubs(topic, dead) ==
    [t \in SubTopics |->
        IF t = topic THEN topic_subscribers[t] \ dead ELSE topic_subscribers[t]]

\* Line 126: {"topic": topic, "delivered": len(subs)}
Delivered(topic, dead) == Cardinality(Subs(topic) \ dead)

\* A publish_event that republishes the envelope to the exchange.
PublishToBrokerForwards(e) ==
    <<[id |-> nextEv, rk |-> e.rk, body |-> [kind |-> "object", type |-> e.type]]>>

\* Lines 110-126 hold no broker call: the messages publish_event hands to
\* the exchange for the envelope it was POSTed.
PublishToBroker(e) == <<>>

\* Lines 115-120: look the topic up, snapshot its set, start the first send.
PublishStart(e) ==
    /\ LoopFree
    /\ ppc = "idle"
    /\ nextEv <= MaxEvents
    /\ nextEv' = nextEv + 1
    /\ pev' = [id |-> nextEv, type |-> e.type, rk |-> e.rk]
    /\ ptopic' = HttpTopic(e)
    /\ IF Subs(HttpTopic(e)) = {}
       THEN /\ presp' = [topic |-> HttpTopic(e),
                         delivered |-> Delivered(HttpTopic(e), {}),
                         id |-> nextEv]
            /\ psent' = {} /\ pdead' = {} /\ ptodo' = {}
            /\ UNCHANGED <<ppc, copies>>
       ELSE /\ \E w \in Subs(HttpTopic(e)) :
                 /\ ptodo' = Subs(HttpTopic(e)) \ {w}
                 /\ IF alive[w]
                    THEN /\ copies' = [copies EXCEPT ![w][nextEv] = @ + 1]
                         /\ psent' = {w} /\ pdead' = {}
                    ELSE /\ pdead' = {w} /\ psent' = {}
                         /\ UNCHANGED copies
            /\ ppc' = "sweep"
            /\ UNCHANGED presp
    /\ atPublish' = [atPublish EXCEPT ![nextEv] =
                        IF Subs(HttpTopic(e)) = {} THEN {} ELSE welcomed]
    /\ nqueue' = nqueue \o PublishToBroker(e)
    /\ UNCHANGED <<connections, topic_subscribers, hpc, cred, alive, htopic,
                   welcomed, msgs, published>>
    /\ UNCHANGED <<brokerUp, npc, attempts, restarts, topo, gpc, nmsg, records,
                   nacks, ntries, npub, qreq, qresp>>
    /\ BUnch

\* A sweep that iterates the live set instead of a copy of it.
SweepPendingLive == Subs(ptopic) \ (psent \cup pdead)

\* Line 118, for ws in list(subs): what is left of the copy taken at the
\* lookup.
SweepPending == ptodo

\* The sweep resumes after an awaited send: the next send, or lines 123-126.
PublishResume ==
    /\ LoopFree
    /\ ppc = "sweep"
    /\ IF SweepPending # {}
       THEN /\ \E w \in SweepPending :
                 /\ ptodo' = ptodo \ {w}
                 /\ PublishSendTo(w, pev.id)
            /\ UNCHANGED <<ppc, presp, connections, topic_subscribers,
                           atPublish>>
       ELSE /\ topic_subscribers' = ReapSubs(ptopic, pdead)
            /\ atPublish' = [atPublish EXCEPT ![pev.id] = {}]
            /\ connections' = connections \ pdead
            /\ presp' = [topic |-> ptopic,
                         delivered |-> Delivered(ptopic, pdead),
                         id |-> pev.id]
            /\ ppc' = "idle"
            /\ UNCHANGED <<ptodo, pdead, psent, copies>>
    /\ UNCHANGED <<pev, ptopic, hpc, cred, alive, htopic, welcomed, msgs, nextEv,
                   published, nvars>>
    /\ BUnch

\* ------------------------------------------- broker and _rabbit_consumer
\* The connections subscribed to a topic that matches routing key rk.
Matching(rk) ==
    {c \in Conns : \E t \in SubTopics :
        c \in topic_subscribers[t] /\ Matches(t, rk)}

\* A producer's basic_publish reaches the exchange, which routes the
\* message to the queues bound with a matching key (the consumer thread
\* declared and bound realtime.broadcast at startup, lines 133-140).
ExchangePublish(e) ==
    /\ nextEv <= MaxEvents
    /\ nextEv' = nextEv + 1
    /\ queue' = IF Matches(GatewayBinding, e.rk)
                THEN Append(queue, [id |-> nextEv, type |-> e.type, rk |-> e.rk])
                ELSE queue
    /\ published' = [published EXCEPT ![nextEv] =
                       [rk |-> e.rk, subs |-> Matching(e.rk)]]
    /\ atPublish' = [atPublish EXCEPT ![nextEv] =
                        IF Matches(GatewayBinding, e.rk) THEN welcomed ELSE {}]
    /\ UNCHANGED <<connections, topic_subscribers, hpc, cred, alive, htopic,
                   welcomed, msgs, bpc, bmsg, btopic, bdead, bmatched,
                   copies, backs>>
    /\ PUnch

\* A create_task that succeeds: the sends are scheduled on the loop and none
\* is marked dead.
ThreadSendScheduled(snapshot) == {}

\* Line 152 runs in the consumer thread, which has no event loop:
\* asyncio.get_event_loop() raises before ws.send_json(event) is evaluated,
\* so every connection of the snapshot is marked dead and none is sent to.
ThreadSendFails(snapshot) == snapshot

\* Lines 143-154: the callback looks the routing key up, snapshots the set
\* and sweeps it.
BrokerLookup ==
    /\ bpc = "idle"
    /\ queue # <<>>
    /\ bmsg' = Head(queue)
    /\ btopic' = Head(queue).rk
    /\ bdead' = ThreadSendFails(Subs(Head(queue).rk))
    /\ bmatched' = {c \in Matching(Head(queue).rk) : alive[c]}
    /\ bpc' = "reap"
    /\ UNCHANGED <<connections, topic_subscribers, hpc, cred, alive, htopic,
                   welcomed, msgs, queue, nextEv, copies, published, atPublish,
                   backs>>
    /\ PUnch

\* Lines 155-157, one connection of `dead` at a time.
BrokerReap ==
    /\ bpc = "reap"
    /\ \E w \in bdead :
         /\ topic_subscribers' = ReapSubs(btopic, {w})
         /\ connections' = connections \ {w}
         /\ bdead' = bdead \ {w}
    /\ UNCHANGED <<hpc, cred, alive, htopic, welcomed, msgs, queue, bpc, bmsg,
                   btopic, bmatched, nextEv, copies, published, atPublish,
                   backs>>
    /\ PUnch

\* Line 158: basic_ack.
BrokerAck ==
    /\ bpc = "reap"
    /\ bdead = {}
    /\ queue' = Tail(queue)
    /\ bpc' = "acked"
    /\ backs' = [backs EXCEPT ![bmsg.id] = @ + 1]
    /\ UNCHANGED <<connections, topic_subscribers, hpc, cred, alive, htopic,
                   welcomed, msgs, bmsg, btopic, bdead, bmatched,
                   nextEv, copies, published, atPublish>>
    /\ PUnch

\* The callback returns to start_consuming.
BrokerReturn ==
    /\ bpc = "acked"
    /\ bpc' = "idle"
    /\ bmsg' = NoEvent /\ btopic' = <<>> /\ bmatched' = {}
    /\ atPublish' = [atPublish EXCEPT ![bmsg.id] = {}]
    /\ UNCHANGED <<connections, topic_subscribers, hpc, cred, alive, htopic,
                   welcomed, msgs, queue, bdead, nextEv, copies, published,
                   backs>>
    /\ PUnch

GNext ==
    \/ \E c \in Conns : Handshake(c)
    \/ \E c \in Conns : Verify(c)
    \/ \E c \in Conns : Accept(c)
    \/ \E c \in Conns : Welcome(c)
    \/ \E c \in Conns : Receive(c)
    \/ \E c \in Conns : SubscribeAdd(c)
    \/ \E c \in Conns : ClientDrop(c)
    \/ \E e \in HttpEnvelopes : PublishStart(e)
    \/ PublishResume
    \/ \E e \in ProducerEvents : ExchangePublish(e)
    \/ BrokerLookup
    \/ BrokerReap
    \/ BrokerAck
    \/ BrokerReturn

\* ------------------------------------------------ the broker topology
\* What the declarations name.
LogiflowExchange ==
    [name |-> "logiflow.events", type |-> "topic", durable |-> TRUE]

\* A consumer that lets the broker name its queue at every start.
NotifQueueServerNamed ==
    [name |-> IF restarts = 0 THEN "amq.gen-0" ELSE "amq.gen-1",
     durable |-> TRUE]

\* notification main.py line 58.
NotifQueue == [name |-> "notification.pedido", durable |-> TRUE]

RealtimeQueue == [name |-> GatewayQueue, durable |-> TRUE]

BindEstado == [queue |-> "notification.pedido", key |-> T_pattern]

BindCreado == [queue |-> "notification.pedido", key |-> T_creado]

BindRealtime == [queue |-> GatewayQueue, key |-> GatewayBinding]

NoTopology == [exchanges |-> <<>>, queues |-> <<>>, bindings |-> <<>>]

Range(list) == {list[i] : i \in 1..Len(list)}

\* The broker's declare: an entity that exists with the same arguments is
\* left as it is.
DeclareIn(list, x) == IF x \in Range(list) THEN list ELSE Append(list, x)

ExchangeDeclare(t, x) == [t EXCEPT !.exchanges = DeclareIn(@, x)]

QueueDeclare(t, q) == [t EXCEPT !.queues = DeclareIn(@, q)]

QueueBind(t, b) == [t EXCEPT !.bindings = DeclareIn(@, b)]

\* The queue q receives a message with routing key rk.
Routed(t, q, rk) ==
    \E b \in Range(t.bindings) : b.queue = q /\ Matches(b.key, rk)

\* ===================================================================
\* The producers: PedidoRepository and FleetRepository
\* ===================================================================
NoRow == [estado |-> "absent"]

\* A timestamp is the number of the call that set it.
NewPedido(now) ==
    [estado |-> "RECIBIDO", notas_entrega |-> "n0", updated_at |-> now]

InitialRepartidor ==
    [estado |-> "DISPONIBLE", ubicacion_lat |-> 0, gps_at |-> 0, updated_at |-> 0]

\* PedidoUpdate / RepartidorUpdate with exclude_unset: the fields provided.
PedidoUpdates ==
    { [estado |-> "ASIGNADO"],
      [notas_entrega |-> "n1"],
      [estado |-> "EN_RUTA", notas_entrega |-> "n1"] }

RepartidorUpdates ==
    { [ubicacion_lat |-> 1],
      [estado |-> "EN_RUTA"],
      [estado |-> "EN_RUTA", ubicacion_lat |-> 1] }

NoUpdate == [none |-> 0]

\* for field, value in update_dict.items(): setattr(row, field, value)
SetFields(row, u) ==
    [f \in DOMAIN row |-> IF f \in DOMAIN u THEN u[f] ELSE row[f]]

\* update_pedido lines 176-190.
UpdatedPedido(row, u, now) ==
    [SetFields(row, u) EXCEPT !.updated_at = now]

\* update_repartidor lines 103-111 and 152.
UpdatedRepartidor(row, u, now) ==
    [SetFields(row, u) EXCEPT
        !.gps_at = IF "ubicacion_lat" \in DOMAIN u THEN now ELSE @,
        !.updated_at = now]

\* Whether the operation publishes: create_pedido always (line 81),
\* update_pedido if estado_cambiado (line 196), update_repartidor if the
\* update carries a location (line 110).
Publishes(o, u) ==
    CASE o = "create_pedido" -> TRUE
      [] o = "update_pedido" -> "estado" \in DOMAIN u
      [] o = "update_repartidor" -> "ubicacion_lat" \in DOMAIN u
      [] OTHER -> FALSE

\* The payload and routing key of the operation's event.
PayloadOf(o) ==
    CASE o = "create_pedido" -> EvCreado
      [] o = "update_pedido" -> EvEstado
      [] OTHER -> EvLocation

PInit ==
    /\ op = "none" /\ upd = NoUpdate /\ target = 0 /\ rpc = "idle"
    /\ session = NoRow /\ pedido = NoRow /\ repartidor = InitialRepartidor
    /\ before = NoRow /\ result = "none"
    /\ exchange = <<>> /\ posts = <<>>
    /\ callPub = FALSE /\ callPost = "none" /\ calls = 0

PFrame == UNCHANGED <<gvars, nvars>>

CanCall == rpc \in {"idle", "done"} /\ calls < MaxCalls

StartCall(o, u, id) ==
    /\ op' = o /\ upd' = u /\ target' = id
    /\ calls' = calls + 1
    /\ callPub' = FALSE /\ callPost' = "none"
    /\ UNCHANGED <<pedido, repartidor, exchange, posts>>

\* create_pedido lines 57-77: the new row is added to the session.
CreatePedido ==
    /\ CanCall
    /\ pedido = NoRow
    /\ StartCall("create_pedido", NoUpdate, 1)
    /\ before' = NoRow
    /\ session' = NewPedido(calls + 1)
    /\ rpc' = "commit" /\ result' = "none"
    /\ PFrame

\* update_pedido lines 167-190.
UpdatePedido(id, u) ==
    /\ CanCall
    /\ StartCall("update_pedido", u, id)
    /\ before' = IF id = 1 THEN pedido ELSE NoRow
    /\ IF id = 1 /\ pedido # NoRow
       THEN /\ session' = UpdatedPedido(pedido, u, calls + 1)
            /\ rpc' = "commit" /\ result' = "none"
       ELSE /\ session' = NoRow
            /\ rpc' = "done" /\ result' = "not_found"
    /\ PFrame

\* cancelar_pedido lines 238-255: an unknown id returns None, a delivered or
\* cancelled pedido raises ValueError, any other is set to CANCELADO (the
\* cancellation's own fields are not part of the row modelled here).
CancelarPedido(id) ==
    /\ CanCall
    /\ StartCall("cancelar_pedido", NoUpdate, id)
    /\ before' = IF id = 1 THEN pedido ELSE NoRow
    /\ IF id # 1 \/ pedido = NoRow
       THEN /\ session' = NoRow
            /\ rpc' = "done" /\ result' = "not_found"
       ELSE IF pedido.estado \in {"ENTREGADO", "CANCELADO"}
       THEN /\ session' = pedido
            /\ rpc' = "done" /\ result' = "raised_value"
       ELSE /\ session' = [pedido EXCEPT !.estado = "CANCELADO",
                                         !.updated_at = calls + 1]
            /\ rpc' = "commit" /\ result' = "none"
    /\ PFrame

\* update_repartidor lines 96-128: the event is published before the commit.
UpdateRepartidor(id, u) ==
    /\ CanCall
    /\ StartCall("update_repartidor", u, id)
    /\ before' = IF id = 1 THEN repartidor ELSE NoRow
    /\ IF id = 1
       THEN /\ session' = UpdatedRepartidor(repartidor, u, calls + 1)
            /\ rpc' = IF Publishes("update_repartidor", u) THEN "connect"
                      ELSE "commit"
            /\ result' = "none"
       ELSE /\ session' = NoRow
            /\ rpc' = "done" /\ result' = "not_found"
    /\ PFrame

\* A publish block that starts over when it is left.
AfterPublishRetries(o) == "connect"

\* Where the operation goes after its publish block.
AfterPublish(o) == IF o = "update_repartidor" THEN "commit" ELSE "done"

\* Where it goes after a successful commit.
AfterCommit(o, u) ==
    IF o # "update_repartidor" /\ Publishes(o, u) THEN "connect" ELSE "done"

\* self.db.commit(): the session's row becomes the committed row, or the
\* commit raises.
Commit ==
    /\ rpc = "commit"
    /\ \E ok \in BOOLEAN :
         IF ok
         THEN /\ pedido' = IF op = "update_repartidor" THEN pedido ELSE session
              /\ repartidor' = IF op = "update_repartidor" THEN session
                               ELSE repartidor
              /\ rpc' = AfterCommit(op, upd)
              /\ result' = IF AfterCommit(op, upd) = "done" THEN "entity"
                           ELSE result
         ELSE /\ rpc' = "done" /\ result' = "raised_commit"
              /\ UNCHANGED <<pedido, repartidor>>
    /\ UNCHANGED <<op, upd, target, session, before, exchange, posts, callPub,
                   callPost, calls>>
    /\ PFrame

\* The publish block is left: the operation goes on.
Leave(next) ==
    /\ rpc' = next
    /\ result' = IF next = "done" THEN "entity" ELSE result

\* The try block of the publish: BlockingConnection and channel,
\* exchange_declare, basic_publish, connection.close().  Any exception goes
\* to the except clause, the HTTP fallback; a step can only succeed while
\* the broker is reachable.
BrokerStep(at, next) ==
    /\ rpc = at
    /\ \E ok \in {b \in BOOLEAN : b => brokerUp} :
         IF ok
         THEN /\ topo' = IF at = "declare"
                         THEN ExchangeDeclare(topo, LogiflowExchange) ELSE topo
              /\ exchange' = IF at = "publish"
                             THEN Append(exchange, PayloadOf(op)) ELSE exchange
              /\ callPub' = IF at = "publish" THEN TRUE ELSE callPub
              /\ IF next = "after" THEN Leave(AfterPublish(op))
                 ELSE rpc' = next /\ UNCHANGED result
         ELSE /\ rpc' = "fallback"
              /\ UNCHANGED <<exchange, callPub, result, topo>>
    /\ UNCHANGED <<op, upd, target, session, pedido, repartidor, before, posts,
                   callPost, calls>>
    /\ UNCHANGED <<gvars, brokerUp, npc, attempts, restarts, gpc, nqueue, nmsg,
                   records, nacks, ntries, npub, qreq, qresp>>

PubConnect == BrokerStep("connect", "declare")

PubDeclare == BrokerStep("declare", "publish")

PubPublish == BrokerStep("publish", "close")

PubClose == BrokerStep("close", "after")

\* A fallback that lets the exception of the POST escape.
FallbackOutcomePropagates(ok) == IF ok THEN "continue" ELSE "raise"

\* Lines 109-114: the inner try; `except Exception: pass`.
FallbackOutcome(ok) == "continue"

\* The HTTP fallback: POST the payload to the Gateway, 2 s timeout.
Fallback ==
    /\ rpc = "fallback"
    /\ \E ok \in BOOLEAN :
         /\ posts' = IF ok THEN Append(posts, PayloadOf(op)) ELSE posts
         /\ callPost' = IF ok THEN "ok" ELSE "failed"
         /\ IF FallbackOutcome(ok) = "raise"
            THEN rpc' = "done" /\ result' = "raised_publish"
            ELSE Leave(AfterPublish(op))
    /\ UNCHANGED <<op, upd, target, session, pedido, repartidor, before,
                   exchange, callPub, calls>>
    /\ PFrame

PNext ==
    \/ CreatePedido
    \/ \E id \in {1, 2}, u \in PedidoUpdates : UpdatePedido(id, u)
    \/ \E id \in {1, 2}, u \in RepartidorUpdates : UpdateRepartidor(id, u)
    \/ Commit
    \/ PubConnect
    \/ PubDeclare
    \/ PubPublish
    \/ PubClose
    \/ Fallback

\* The operations of PedidoRepository.
PedidoNext ==
    \/ CreatePedido
    \/ \E id \in {1, 2}, u \in PedidoUpdates : UpdatePedido(id, u)
    \/ \E id \in {1, 2} : CancelarPedido(id)
    \/ Commit
    \/ PubConnect
    \/ PubDeclare
    \/ PubPublish
    \/ PubClose
    \/ Fallback

\* ===================================================================
\* The broker topology and the Notification Consumer
\* ===================================================================
T_unknown == <<"unknown">>

NoMessage == [id |-> 0, rk |-> <<>>, body |-> [kind |-> "none", type |-> <<>>]]

NoPub == [rk |-> <<>>, body |-> [kind |-> "none", type |-> <<>>],
          bound |-> FALSE]

NoQuery ==
    [kind |-> "none", limit |-> 0, offset |-> 0,
     event_type |-> [given |-> FALSE, value |-> <<>>],
     routing_key |-> [given |-> FALSE, value |-> <<>>], category |-> <<>>]

\* Nothing is declared, published or stored yet.
NFresh ==
    /\ npc = "off" /\ attempts = 0 /\ restarts = 0
    /\ topo = NoTopology
    /\ gpc = "off"
    /\ nqueue = <<>> /\ nmsg = NoMessage
    /\ records = <<>>
    /\ nacks = [e \in EventIds |-> 0]
    /\ ntries = [e \in EventIds |-> <<>>]
    /\ npub = [e \in EventIds |-> NoPub]
    /\ qreq = NoQuery /\ qresp = <<>>

\* The consumers start before the broker does.
NInit == brokerUp = FALSE /\ NFresh

\* What a notification action leaves alone besides the variables it names.
NFrame == UNCHANGED <<connections, topic_subscribers, hpc, cred, alive,
                      htopic, welcomed, msgs, ppc, pev, ptopic, ptodo, pdead,
                      psent, presp, queue, bpc, bmsg, btopic, bdead,
                      bmatched, copies, published, atPublish, backs,
                      pvars, qreq, qresp>>

\* The broker starts accepting connections.
BrokerStart ==
    /\ ~brokerUp
    /\ brokerUp' = TRUE
    /\ UNCHANGED <<npc, attempts, restarts, topo, gpc, nqueue, nmsg, records,
                   nacks, ntries, npub, nextEv>>
    /\ NFrame

\* notification main.py lines 139-145, start_consumer: the database is
\* reachable, the table exists, the consumer thread starts.
StartConsumer ==
    /\ npc = "off"
    /\ npc' = "connect"
    /\ UNCHANGED <<brokerUp, attempts, restarts, topo, gpc, nqueue, nmsg,
                   records, nacks, ntries, npub, nextEv>>
    /\ NFrame

\* A retry loop that stops after MaxAttempts failures.
RetryOutcomeGivesUp(n) == IF n >= MaxAttempts THEN "dead" ELSE "connect"

\* Lines 49-51: except Exception, sleep 2 s, next iteration.
RetryOutcome(n) == "connect"

\* Lines 45-51: one iteration of the retry loop.
NotifConnect ==
    /\ npc = "connect"
    /\ IF brokerUp
       THEN /\ npc' = "exchange"
            /\ UNCHANGED attempts
       ELSE /\ npc' = RetryOutcome(attempts + 1)
            /\ attempts' = IF attempts < MaxAttempts THEN attempts + 1
                           ELSE attempts
    /\ UNCHANGED <<brokerUp, restarts, topo, gpc, nqueue, nmsg, records,
                   nacks, ntries, npub, nextEv>>
    /\ NFrame

\* One declaration of the thread's topology block (lines 53-65); outside
\* the retry loop, an exception ends the thread.
NotifStep(at, next, declared) ==
    /\ npc = at
    /\ IF brokerUp
       THEN npc' = next /\ topo' = declared
       ELSE npc' = "dead" /\ UNCHANGED topo
    /\ UNCHANGED <<brokerUp, attempts, restarts, gpc, nqueue, nmsg, records,
                   nacks, ntries, npub, nextEv>>
    /\ NFrame

\* Lines 53-56.
NotifDeclareExchange ==
    NotifStep("exchange", "queue", ExchangeDeclare(topo, LogiflowExchange))

\* Line 58.
NotifDeclareQueue ==
    NotifStep("queue", "bind_estado", QueueDeclare(topo, NotifQueue))

\* Lines 60-62.
NotifBindEstado ==
    NotifStep("bind_estado", "bind_creado", QueueBind(topo, BindEstado))

\* Lines 63-65, then basic_consume and start_consuming.
NotifBindCreado ==
    NotifStep("bind_creado", "consuming", QueueBind(topo, BindCreado))

\* json.dumps(payload).encode(): a producer's envelope as a message body.
Encode(e) == [kind |-> "object", type |-> e.type]

\* The bodies a message on the exchange can carry: a producer's envelope,
\* a JSON object without "type", a JSON value that is no object, bytes
\* that are no JSON.
Bodies(e) ==
    { Encode(e),
      [kind |-> "object", type |-> <<>>],
      [kind |-> "value", type |-> <<>>],
      [kind |-> "garbage", type |-> <<>>] }

\* Lines 68-71: json.loads(body), or {"raw": ...} when it raises.
Decode(body) ==
    CASE body.kind = "object" -> [dict |-> TRUE, raw |-> FALSE, type |-> body.type]
      [] body.kind = "value" -> [dict |-> FALSE, raw |-> FALSE, type |-> <<>>]
      [] OTHER -> [dict |-> TRUE, raw |-> TRUE, type |-> <<>>]

\* A row that never takes the envelope's type.
EventTypeAlwaysUnknown(event) == T_unknown

\* Line 75: event.get("type", "unknown")
EventType(event) == IF event.type = <<>> THEN T_unknown ELSE event.type

\* Lines 75-77: the row of a message.
RowOf(m) ==
    [id |-> m.id,
     event_type |-> EventType(Decode(m.body)),
     routing_key |-> m.rk,
     payload |-> Decode(m.body)]

\* The consumer's queue and both its bindings exist.
NotifBound(t) ==
    /\ NotifQueue \in Range(t.queues)
    /\ {BindEstado, BindCreado} \subseteq Range(t.bindings)

\* A message is published to logiflow.events (after the publisher's
\* exchange_declare) and routed to notification.pedido by its bindings.
NotifPublish(e, body) ==
    /\ brokerUp
    /\ nextEv <= MaxEvents
    /\ nextEv' = nextEv + 1
    /\ topo' = ExchangeDeclare(topo, LogiflowExchange)
    /\ nqueue' = IF Routed(topo, NotifQueue.name, e.rk)
                 THEN Append(nqueue, [id |-> nextEv, rk |-> e.rk, body |-> body])
                 ELSE nqueue
    /\ npub' = [npub EXCEPT ![nextEv] =
                  [rk |-> e.rk, body |-> body, bound |-> NotifBound(topo)]]
    /\ UNCHANGED <<brokerUp, npc, attempts, restarts, gpc, nmsg, records,
                   nacks, ntries>>
    /\ NFrame

\* Lines 67-71: the broker hands the head of the queue to the callback.
NotifDeliver ==
    /\ npc = "consuming"
    /\ nqueue # <<>>
    /\ nmsg' = Head(nqueue)
    /\ npc' = "persist"
    /\ UNCHANGED <<brokerUp, attempts, restarts, topo, gpc, nqueue, records,
                   nacks, ntries, npub, nextEv>>
    /\ NFrame

\* A callback that handles the message again after a failed write.
AfterPersistRetries(ok) == IF ok THEN "ack" ELSE "persist"

\* Lines 81-88: a failure of the write is printed; the callback goes on to
\* basic_ack either way.
AfterPersist(ok) == "ack"

\* How a persistence attempt ends.
PersistOutcome(dbok, event) ==
    CASE ~event.dict -> "bad_event"
      [] ~dbok -> "db_error"
      [] OTHER -> "stored"

\* Lines 73-87: the persistence attempt.  It fails when the event is no
\* dict (event.get raises) or when the database does.
NotifPersist ==
    /\ npc = "persist"
    /\ \E dbok \in BOOLEAN :
         /\ records' = IF dbok /\ Decode(nmsg.body).dict
                       THEN Append(records, RowOf(nmsg)) ELSE records
         /\ npc' = AfterPersist(dbok /\ Decode(nmsg.body).dict)
         /\ ntries' = [ntries EXCEPT ![nmsg.id] =
                         Append(@, PersistOutcome(dbok, Decode(nmsg.body)))]
    /\ UNCHANGED <<brokerUp, attempts, restarts, topo, gpc, nqueue, nmsg,
                   nacks, npub, nextEv>>
    /\ NFrame

\* Line 88: basic_ack; the callback returns to start_consuming.
NotifAck ==
    /\ npc = "ack"
    /\ nacks' = [nacks EXCEPT ![nmsg.id] = @ + 1]
    /\ nqueue' = Tail(nqueue)
    /\ nmsg' = NoMessage
    /\ npc' = "consuming"
    /\ UNCHANGED <<brokerUp, attempts, restarts, topo, gpc, records, ntries,
                   npub, nextEv>>
    /\ NFrame

\* The consumer's broker connection is lost while it consumes (the broker
\* goes down, or only the socket closes): start_consuming (line 93) raises;
\* the call is in no try block and the retry loop of lines 45-51 is behind
\* it, so the exception ends the thread.  The unacknowledged message stays
\* in the durable queue.
ConnectionLost ==
    /\ npc \in {"consuming", "persist", "ack"}
    /\ brokerUp
    /\ \E down \in BOOLEAN : brokerUp' = ~down
    /\ npc' = "dead"
    /\ nmsg' = NoMessage
    /\ UNCHANGED <<attempts, restarts, topo, gpc, nqueue, records, nacks,
                   ntries, npub, nextEv>>
    /\ NFrame

\* realtime main.py lines 166-169, start_rabbit: the consumer thread starts.
StartRabbit ==
    /\ gpc = "off"
    /\ gpc' = "connect"
    /\ UNCHANGED <<brokerUp, npc, attempts, restarts, topo, nqueue, nmsg,
                   records, nacks, ntries, npub, nextEv>>
    /\ NFrame

\* One step of the Gateway thread's startup (lines 130-140); none of it is
\* in a try block, so an exception ends the thread.
GatewayStep(at, next, declared) ==
    /\ gpc = at
    /\ IF brokerUp
       THEN gpc' = next /\ topo' = declared
       ELSE gpc' = "dead" /\ UNCHANGED topo
    /\ UNCHANGED <<brokerUp, npc, attempts, restarts, nqueue, nmsg, records,
                   nacks, ntries, npub, nextEv>>
    /\ NFrame

\* Lines 130-132.
GatewayConnect == GatewayStep("connect", "exchange", topo)

\* Lines 133-135.
GatewayDeclareExchange ==
    GatewayStep("exchange", "queue", ExchangeDeclare(topo, LogiflowExchange))

\* Line 136.
GatewayDeclareQueue ==
    GatewayStep("queue", "bind", QueueDeclare(topo, RealtimeQueue))

\* Lines 138-140, then basic_consume and start_consuming.
GatewayBind ==
    GatewayStep("bind", "consuming", QueueBind(topo, BindRealtime))

\* A consumer process is restarted: its startup runs again against the
\* broker's durable topology.
Restart(service) ==
    /\ restarts < MaxRestarts
    /\ restarts' = restarts + 1
    /\ IF service = "notification"
       THEN /\ npc \in {"consuming", "dead"}
            /\ npc' = "off" /\ attempts' = 0
            /\ UNCHANGED gpc
       ELSE /\ gpc \in {"consuming", "dead"}
            /\ gpc' = "off"
            /\ UNCHANGED <<npc, attempts>>
    /\ UNCHANGED <<brokerUp, topo, nqueue, nmsg, records, nacks, ntries, npub,
                   nextEv>>
    /\ NFrame

\* The Notification Consumer with its publishers and the HTTP publish path.
NNext ==
    \/ BrokerStart
    \/ StartConsumer
    \/ NotifConnect
    \/ NotifDeclareExchange
    \/ NotifDeclareQueue
    \/ NotifBindEstado
    \/ NotifBindCreado
    \/ \E e \in ProducerEvents : \E body \in Bodies(e) : NotifPublish(e, body)
    \/ NotifDeliver
    \/ NotifPersist
    \/ NotifAck
    \/ \E e \in HttpEnvelopes : PublishStart(e)
    \/ PublishResume

\* The Notification Consumer, its publishers, and a broker whose
\* connections can be lost.
RNext ==
    \/ BrokerStart
    \/ StartConsumer
    \/ NotifConnect
    \/ NotifDeclareExchange
    \/ NotifDeclareQueue
    \/ NotifBindEstado
    \/ NotifBindCreado
    \/ \E e \in ProducerEvents : \E body \in Bodies(e) : NotifPublish(e, body)
    \/ NotifDeliver
    \/ NotifPersist
    \/ NotifAck
    \/ ConnectionLost

\* Everything that declares topology: a producer (create_pedido) and both
\* consumers.
TNext ==
    \/ BrokerStart
    \/ StartConsumer
    \/ NotifConnect
    \/ NotifDeclareExchange
    \/ NotifDeclareQueue
    \/ NotifBindEstado
    \/ NotifBindCreado
    \/ StartRabbit
    \/ GatewayConnect
    \/ GatewayDeclareExchange
    \/ GatewayDeclareQueue
    \/ GatewayBind
    \/ \E service \in {"notification", "gateway"} : Restart(service)
    \/ CreatePedido
    \/ Commit
    \/ PubConnect
    \/ PubDeclare
    \/ PubPublish
    \/ PubClose
    \/ Fallback

\* The Gateway as the HTTP publish path finds it: clients are connected
\* and subscribed to the default topic, each handler waits in receive_text.
GConnected ==
    /\ connections = Conns
    /\ topic_subscribers =
         [t \in SubTopics |-> IF t = DefaultTopic THEN Conns ELSE {}]
    /\ hpc = [c \in Conns |-> "recv"]
    /\ cred = [c \in Conns |-> "valid"]
    /\ alive = [c \in Conns |-> TRUE]
    /\ htopic = [c \in Conns |-> <<>>]
    /\ welcomed = Conns
    /\ msgs = 0
    /\ ppc = "idle" /\ pev = NoEvent /\ ptopic = <<>>
    /\ ptodo = {} /\ pdead = {} /\ psent = {}
    /\ presp = [topic |-> <<>>, delivered |-> 0, id |-> 0]
    /\ queue = <<>>
    /\ bpc = "idle" /\ bmsg = NoEvent /\ btopic = <<>>
    /\ bdead = {} /\ bmatched = {}
    /\ nextEv = 1
    /\ copies = [c \in Conns |-> [e \in EventIds |-> 0]]
    /\ published = [e \in EventIds |-> NoPublish]
    /\ atPublish = [e \in EventIds |-> {}]
    /\ backs = [e \in EventIds |-> 0]

\* ------------------------------------------------ the query endpoints
\* A string, as the query endpoints see it, is its characters.
SegChars(seg) ==
    CASE seg = "pedido" -> <<"p", "e", "d", "i", "d", "o">>
      [] seg = "creado" -> <<"c", "r", "e", "a", "d", "o">>
      [] seg = "estado" -> <<"e", "s", "t", "a", "d", "o">>
      [] seg = "actualizado" ->
           <<"a", "c", "t", "u", "a", "l", "i", "z", "a", "d", "o">>
      [] OTHER -> <<seg>>

RECURSIVE Str(_)
\* The segments of a routing key joined with dots.
Str(rk) ==
    IF Len(rk) = 0 THEN <<>>
    ELSE IF Len(rk) = 1 THEN SegChars(rk[1])
    ELSE SegChars(rk[1]) \o <<".">> \o Str(Tail(rk))

\* The categories a client asks for.
Categories ==
    { <<"p", "e", "d", "i", "d", "o">>,
      <<"P", "E", "D", "I", "D", "O">>,
      <<"p", "e", "d", "i", "d", "_">>,
      <<"p", "e", "d", "i", "d", "o", ".", "e", "s", "t", "a", "d", "o">>,
      <<"r", "e", "a", "l", "t", "i", "m", "e">> }

Lower(ch) ==
    CASE ch = "P" -> "p" [] ch = "E" -> "e" [] ch = "D" -> "d"
      [] ch = "I" -> "i" [] ch = "O" -> "o" [] OTHER -> ch

RECURSIVE ILike(_, _)
\* Column.ilike(pattern): "%" matches any run of characters, "_" any one
\* character, every other character itself without regard to case.
ILike(pattern, str) ==
    IF pattern = <<>> THEN str = <<>>
    ELSE IF Head(pattern) = "%"
         THEN ILike(Tail(pattern), str)
              \/ (str # <<>> /\ ILike(pattern, Tail(str)))
    ELSE /\ str # <<>>
         /\ (Head(pattern) = "_" \/ Lower(Head(pattern)) = Lower(Head(str)))
         /\ ILike(Tail(pattern), Tail(str))

RECURSIVE Reverse(_)
\* order_by(created_at.desc()): created_at grows with the insertion order.
Reverse(list) ==
    IF list = <<>> THEN <<>> ELSE Append(Reverse(Tail(list)), Head(list))

\* .offset(offset).limit(limit)
Slice(list, offset, limit) ==
    SubSeq(list, offset + 1,
           IF offset + limit < Len(list) THEN offset + limit ELSE Len(list))

\* An optional query parameter.
NotGiven == [given |-> FALSE, value |-> <<>>]

Given(v) == [given |-> TRUE, value |-> v]

\* Lines 120-123, `if event_type:`: a filter applies when the parameter is
\* given and not empty.
Applies(filter) == filter.given /\ filter.value # <<>>

\* Lines 119-124.
ListResult(table, limit, offset, event_type, routing_key) ==
    LET Keep(r) ==
            /\ Applies(event_type) => r.event_type = event_type.value
            /\ Applies(routing_key) => r.routing_key = routing_key.value
    IN Slice(Reverse(SelectSeq(table, Keep)), offset, limit)

\* Lines 133-136.
CategoryResult(table, category, limit, offset) ==
    LET Keep(r) == ILike(category \o <<".", "%">>, Str(r.routing_key))
    IN Slice(Reverse(SelectSeq(table, Keep)), offset, limit)

\* What the consumer stores for a message.
StoredRows ==
    { [event_type |-> EventType(Decode(b)), routing_key |-> rk,
       payload |-> Decode(b)] :
        b \in {Encode(EvCreado), Encode(EvEstado),
               [kind |-> "garbage", type |-> <<>>]},
        rk \in {T_creado, T_actualizado} }

\* The tables of up to MaxRecords rows.
Tables ==
    UNION { { [i \in 1..n |->
                [id |-> i, event_type |-> f[i].event_type,
                 routing_key |-> f[i].routing_key, payload |-> f[i].payload]] :
              f \in [1..n -> StoredRows] } : n \in 0..MaxRecords }

\* The services run and the table holds what the consumer has stored.
QInit ==
    /\ GInit /\ PInit /\ brokerUp = TRUE
    /\ npc = "consuming" /\ attempts = 0 /\ restarts = 0
    /\ topo = NoTopology
    /\ gpc = "off"
    /\ nqueue = <<>> /\ nmsg = NoMessage
    /\ records \in Tables
    /\ nacks = [e \in EventIds |-> 0]
    /\ ntries = [e \in EventIds |-> <<>>]
    /\ npub = [e \in EventIds |-> NoPub]
    /\ qreq = NoQuery /\ qresp = <<>>

QFrame == UNCHANGED <<gvars, pvars, brokerUp, npc, attempts, restarts, topo,
                      gpc, nqueue, nmsg, records, nacks, ntries, npub>>

\* GET /api/notifications
ListNotifications(limit, offset, event_type, routing_key) ==
    /\ qreq' = [kind |-> "list", limit |-> limit, offset |-> offset,
                event_type |-> event_type, routing_key |-> routing_key,
                category |-> <<>>]
    /\ qresp' = ListResult(records, limit, offset, event_type, routing_key)
    /\ QFrame

\* GET /api/notifications/categories/{category}
ListByCategory(category, limit, offset) ==
    /\ qreq' = [kind |-> "category", limit |-> limit, offset |-> offset,
                event_type |-> NotGiven, routing_key |-> NotGiven,
                category |-> category]
    /\ qresp' = CategoryResult(records, category, limit, offset)
    /\ QFrame

\* Query(50, ge=1, le=200) and Query(0, ge=0), within the table's size.
Limits == 1..MaxRecords

Offsets == 0..MaxRecords

TypeFilters == {NotGiven, Given(T_creado), Given(T_unknown)}

KeyFilters == {NotGiven, Given(T_creado), Given(T_actualizado)}

QNext ==
    \/ \E limit \in Limits, offset \in Offsets :
         \E event_type \in TypeFilters, routing_key \in KeyFilters :
            ListNotifications(limit, offset, event_type, routing_key)
    \/ \E limit \in Limits, offset \in Offsets :
         \E category \in Categories : ListByCategory(category, limit, offset)

\* The services run against a reachable broker.
Init == GInit /\ PInit /\ brokerUp = TRUE /\ NFresh

Next == GNext

Spec == Init /\ [][Next]_vars

SpecProducer == Init /\ [][PNext]_vars

SpecPedido == Init /\ [][PedidoNext]_vars

\* Clients are connected and the consumer starts before the broker.
NotifInit == GConnected /\ PInit /\ NInit

SpecNotif == NotifInit /\ [][NNext]_vars

\* The consumer's thread is scheduled: a step it can take is taken.
NotifThread ==
    \/ StartConsumer
    \/ NotifConnect
    \/ NotifDeclareExchange
    \/ NotifDeclareQueue
    \/ NotifBindEstado
    \/ NotifBindCreado

SpecNotifLive == NotifInit /\ [][NNext]_vars /\ WF_vars(NotifThread)

SpecReconnect == NotifInit /\ [][RNext]_vars /\ WF_vars(NotifThread)

SpecQuery == QInit /\ [][QNext]_vars

\* Nothing runs yet and the broker has no topology.
TopologyInit == GInit /\ PInit /\ NInit

SpecTopology == TopologyInit /\ [][TNext]_vars

\* ===================================================================
\* Properties of the Gateway
\* ===================================================================

\* C1: for every event published to the exchange with routing key R, the
\* broker-triggered fan-out delivers exactly one copy to every (live)
\* connection subscribed, when the callback looks R up, to a topic
\* matching R, and no copy to any other connection.
C1_BrokerFanoutExactlyOnce ==
    bpc = "acked" =>
        \A c \in Conns :
            /\ (c \in bmatched /\ alive[c]) => copies[c][bmsg.id] = 1
            /\ c \notin bmatched => copies[c][bmsg.id] = 0

\* C2: each connection is a member of at most one topic's subscriber set.
C2_AtMostOneTopic ==
    \A c \in Conns : Cardinality(TopicsOf(c)) <= 1

\* C2 witness: a connection has completed a subscribe message while another
\* connection is registered and a fan-out is in progress.
C2_Witness ==
    \E c \in Conns, d \in Conns :
        /\ c # d
        /\ msgs > 0
        /\ hpc[c] = "recv"
        /\ Cardinality(TopicsOf(c)) = 1
        /\ d \in connections
        /\ (ppc = "sweep" \/ bpc = "reap")

\* C3: a subscribe message's move from topic A to topic B is atomic for
\* every fan-out: no fan-out takes its snapshot while the connection is
\* in both sets or in neither.
C3_SwitchAtomic ==
    [][ ((bpc = "idle" /\ bpc' = "reap") \/ (ppc = "idle" /\ pev' # pev))
        => \A c \in Conns :
              hpc[c] = "sub_mid" => Cardinality(TopicsOf(c)) = 1 ]_vars

\* C4: once a connection's handler has closed it, the connection is absent
\* from the registry and from every subscriber set, and no fan-out sweep,
\* one already in progress included, attempts a send to it.
C4_ClosedNeverSentTo ==
    [][ \A c \in Conns :
          hpc[c] = "closed" =>
             /\ c \notin connections
             /\ TopicsOf(c) = {}
             /\ ~(ppc = "sweep" /\ c \in ptodo /\ c \notin ptodo') ]_vars

\* C5: a connection attempt that fails authentication is never in the
\* registry nor in a subscriber set, is never sent a welcome frame, and its
\* handler only ever waits for the verification or has ended.
C5_AuthFailureNeverRegistered ==
    \A c \in Conns :
        cred[c] \in Creds \ {"valid"} =>
            /\ c \notin connections
            /\ TopicsOf(c) = {}
            /\ c \notin welcomed
            /\ ~alive[c]
            /\ hpc[c] \in {"verify", "rejected", "failed"}

\* C5 witness: one attempt was rejected by the auth service while another
\* connection is registered and welcomed.
C5_Witness ==
    \E c \in Conns, d \in Conns :
        /\ cred[c] = "invalid" /\ hpc[c] = "rejected"
        /\ d \in connections /\ d \in welcomed

\* C6: the `delivered` value of a publish response is the number of
\* connections the event was sent to successfully during that call.
C6_DeliveredIsSentCount ==
    (ppc = "idle" /\ presp.id # 0) => presp.delivered = Cardinality(psent)

\* C7: POSTing a producer's envelope fans out to the subscribers of the
\* producer's routing key, as the broker path does: the sweep's snapshot
\* is the subscriber set of the routing key.
C7_HttpSameAsBroker ==
    [][ (ppc = "idle" /\ pev' # pev /\ pev'.rk # <<>>)
        => (psent' \cup pdead' \cup ptodo') = Subs(pev'.rk) ]_vars

\* The Gateway has nothing left to do for the broker.
BrokerQuiet == queue = <<>> /\ bpc = "idle"

\* C8: a connection subscribed to pedido.estado.* receives an event
\* published with routing key pedido.estado.actualizado; a connection
\* subscribed to no matching topic when the event is published does not.
C8_PatternSubscription ==
    \A e \in EventIds, c \in Conns :
        published[e].rk = T_actualizado =>
            /\ ( /\ BrokerQuiet
                 /\ c \in published[e].subs
                 /\ c \in topic_subscribers[T_pattern]
                 /\ alive[c] /\ hpc[c] = "recv" /\ msgs = 0 )
               => copies[c][e] = 1
            /\ c \notin published[e].subs => copies[c][e] = 0
\* ===================================================================
\* Properties of the producers
\* ===================================================================

\* The committed row of the entity the current operation works on.
CommittedRow == IF op = "update_repartidor" THEN repartidor ELSE pedido

\* The row the operation commits when nothing goes wrong in publishing.
ExpectedRow ==
    CASE op = "create_pedido" -> NewPedido(calls)
      [] op = "update_pedido" -> UpdatedPedido(before, upd, calls)
      [] OTHER -> UpdatedRepartidor(before, upd, calls)

\* C9: whatever the outcomes of the broker attempt and of the HTTP
\* fallback, the operation ends without an error caused by publishing: it
\* returns the entity (or None for an unknown id, or raises what the commit
\* raised), and the committed row is the one the update alone determines.
C9_PublishNeverFailsCaller ==
    rpc = "done" =>
        /\ result \in {"entity", "not_found", "raised_commit"}
        /\ result = "entity" => CommittedRow = ExpectedRow
        /\ result = "not_found" => before = NoRow
        /\ result = "raised_commit" => CommittedRow = before

\* C9 witness: update_repartidor returned the entity after the broker
\* attempt and the HTTP fallback both failed.
C9_Witness ==
    /\ rpc = "done" /\ op = "update_repartidor" /\ result = "entity"
    /\ ~callPub /\ callPost = "failed"

\* C10: within one publish call, if basic_publish succeeded the HTTP
\* fallback POST is not made.
C10_AtMostOnePath == callPub => callPost = "none"

\* ===================================================================
\* Properties of the Notification Consumer
\* ===================================================================

\* C11: for every message handed to the notification callback, whatever its
\* body and whether the write succeeds, there is one persistence attempt
\* (a failed one is not repeated), the message is acknowledged at most once
\* and only after that attempt, and exactly once when the callback has
\* returned.
C11_AckOnceAfterPersist ==
    \A e \in EventIds :
        /\ nacks[e] <= 1
        /\ Len(ntries[e]) <= 1
        /\ nacks[e] = 1 => Len(ntries[e]) = 1
        /\ (Len(ntries[e]) = 1 /\ nmsg.id # e) => nacks[e] = 1

\* C11 witness: a message whose write the database refused and a message
\* that is no JSON have both been acknowledged.
C11_Witness ==
    \E e \in EventIds, f \in EventIds :
        /\ ntries[e] = <<"db_error">> /\ nacks[e] = 1
        /\ npub[f].body.kind = "garbage" /\ nacks[f] = 1

\* The rows of the table written for event e.
RowsOf(e) == {i \in DOMAIN records : records[i].id = e}

\* The routing keys the consumer's bindings match.
NotifMatches(rk) == Matches(T_pattern, rk) \/ Matches(T_creado, rk)

\* C12: an envelope with a type, published while the consumer's bindings
\* exist with a routing key they match, has exactly one row once the
\* callback is done with it and the database did not refuse the write; the
\* row carries the envelope's type, the routing key and the envelope.  An
\* event with any other routing key has no row.
C12_PersistsMatchingEvents ==
    \A e \in EventIds :
        /\ Cardinality(RowsOf(e)) <= 1
        /\ \A i \in RowsOf(e) :
              /\ records[i].routing_key = npub[e].rk
              /\ records[i].payload = Decode(npub[e].body)
              /\ npub[e].body.type # <<>> =>
                    records[i].event_type = npub[e].body.type
        /\ ( /\ npub[e].body.kind = "object"
             /\ npub[e].bound
             /\ NotifMatches(npub[e].rk)
             /\ nacks[e] = 1
             /\ ntries[e] # <<"db_error">> ) => Cardinality(RowsOf(e)) = 1
        /\ ~NotifMatches(npub[e].rk) => RowsOf(e) = {}

\* C12 witness: a state change event has its row, and a location event
\* published while the bindings exist has none.
C12_Witness ==
    \E e \in EventIds, f \in EventIds :
        /\ npub[e].rk = T_actualizado /\ npub[e].body = Encode(EvEstado)
        /\ nacks[e] = 1 /\ Cardinality(RowsOf(e)) = 1
        /\ npub[f].rk = T_location /\ npub[f].bound /\ RowsOf(f) = {}

\* The consumer's thread is in start_consuming (or in its callback).
Consuming == npc \in {"consuming", "persist", "ack"}

\* C13: the consumer's thread never ends, and once the broker is reachable
\* the thread eventually has connected, declared its topology and consumes.
C13_EventuallyConsuming == [](npc # "dead") /\ (brokerUp ~> Consuming)

\* C13 witness: the thread consumes after as many failed connection
\* attempts as the model counts.
C13_Witness == attempts = MaxAttempts /\ Consuming

\* C14: a step of publish_event (the lookup, a send of the sweep, the reap
\* and response) leaves the notifications table and the broker's queues
\* unchanged.
C14_HttpPublishPersistsNothing ==
    [][ (<<ppc, pev, ptodo>>' # <<ppc, pev, ptodo>>)
        => UNCHANGED <<records, nqueue, queue>> ]_vars

\* C14 witness: an event POSTed to the Gateway was sent to a subscriber and
\* answered, it has no row, and the table holds a row of a broker event.
C14_Witness ==
    /\ ppc = "idle" /\ presp.id # 0 /\ psent # {}
    /\ RowsOf(presp.id) = {}
    /\ records # <<>>

\* ===================================================================
\* Further properties of the Gateway
\* ===================================================================

\* C15: an event is only ever sent to connections that had registered when
\* it was published (to the exchange, or POSTed to the Gateway).
C15_NoDeliveryToLateJoiners ==
    [][ \A e \in EventIds, c \in Conns :
          copies'[c][e] > copies[c][e] => c \in atPublish'[e] ]_vars

\* C15 witness: a connection registered after an event was published to
\* the exchange and before the callback looked the routing key up; the
\* callback has acknowledged the message and nothing was sent to it.
C15_Witness ==
    \E c \in Conns :
        /\ bpc = "acked"
        /\ c \notin atPublish[bmsg.id]
        /\ c \in bmatched
        /\ copies[c][bmsg.id] = 0

\* C18: the broker thread's fan-out (snapshot taken, dead connections being
\* discarded, not yet acknowledged) is never in progress while a connection
\* task is inside its subscribe block, between the discard and the add.
C18_IndexAccessExclusive ==
    ~(bpc = "reap" /\ \E c \in Conns : hpc[c] = "sub_mid")

\* C19: an HTTP sweep ends with every connection of its snapshot attempted;
\* its last step removes every connection whose send failed from the
\* topic's set and from the registry and no connection whose send
\* succeeded.  The broker callback acknowledges only when every dead
\* connection has been removed, and each removal takes the connection out
\* of the topic's set and the registry.
C19_FailedSendsIsolated ==
    [][ /\ (ppc = "sweep" /\ ppc' = "idle") =>
              /\ ptodo = {}
              /\ pdead \cap topic_subscribers'[ptopic] = {}
              /\ pdead \cap connections' = {}
              /\ (psent \cap connections) \subseteq connections'
              /\ (psent \cap topic_subscribers[ptopic])
                    \subseteq topic_subscribers'[ptopic]
        /\ (bpc = "reap" /\ bpc' = "acked") => bdead = {}
        /\ (bpc = "reap" /\ bdead' # bdead) =>
              /\ (bdead \ bdead') \cap topic_subscribers'[btopic] = {}
              /\ (bdead \ bdead') \cap connections' = {} ]_vars

\* C19 witness: a sweep has ended in which one send succeeded and one
\* failed.
C19_Witness ==
    ppc = "idle" /\ presp.id # 0 /\ psent # {} /\ pdead # {}

\* C20: when the callback's sweep loop has run, the send to every
\* connection of the snapshot has completed or failed; the message is
\* acknowledged after that and after the dead connections are removed,
\* once, and it has been acknowledged when the callback returns.
C20_AckAfterFanout ==
    [][ /\ (bpc = "idle" /\ bpc' = "reap") =>
              \A c \in Subs(Head(queue).rk) :
                  \/ c \in bdead'
                  \/ copies'[c][Head(queue).id] > copies[c][Head(queue).id]
        /\ backs' # backs =>
              /\ bpc = "reap" /\ bdead = {}
              /\ bmsg = Head(queue)
              /\ backs[bmsg.id] = 0
              /\ backs' = [backs EXCEPT ![bmsg.id] = 1]
        /\ (bpc = "acked" /\ bpc' = "idle") => backs[bmsg.id] = 1 ]_vars

\* C20 witness: a message whose routing key had a live subscriber has been
\* acknowledged.
C20_Witness ==
    bpc = "acked" /\ backs[bmsg.id] = 1 /\ bmatched # {}

\* ===================================================================
\* Properties of the broker topology
\* ===================================================================

\* No entity is listed twice.
NoDuplicates(list) ==
    \A i \in 1..Len(list), j \in 1..Len(list) : list[i] = list[j] => i = j

\* No two entities of the list have the same name.
NoNameTwice(list) ==
    \A i \in 1..Len(list), j \in 1..Len(list) :
        list[i].name = list[j].name => i = j

\* The topology has nothing but the entities of the one-time setup.
WithinSetup(t) ==
    /\ Range(t.exchanges) \subseteq {LogiflowExchange}
    /\ Range(t.queues) \subseteq {NotifQueue, RealtimeQueue}
    /\ Range(t.bindings) \subseteq {BindEstado, BindCreado, BindRealtime}

\* The topology has all of them.
SetupComplete(t) ==
    /\ Range(t.exchanges) = {LogiflowExchange}
    /\ Range(t.queues) = {NotifQueue, RealtimeQueue}
    /\ Range(t.bindings) = {BindEstado, BindCreado, BindRealtime}

\* C16: whatever declarations the publishers, the Notification Consumer
\* and the Gateway repeat, in whatever order, the topology never holds an
\* exchange, queue or binding twice nor one outside the one-time setup,
\* and once it holds the whole setup no declaration changes it.
C16_TopologyIdempotent ==
    [][ /\ NoNameTwice(topo'.exchanges) /\ NoNameTwice(topo'.queues)
        /\ NoDuplicates(topo'.bindings)
        /\ WithinSetup(topo')
        /\ SetupComplete(topo) => topo' = topo ]_vars

\* C16 witness: the setup is complete, a consumer has been restarted and
\* has declared its topology again, and a publisher has declared the
\* exchange and published.
C16_Witness ==
    /\ SetupComplete(topo)
    /\ restarts > 0 /\ npc = "consuming" /\ gpc = "consuming"
    /\ callPub

\* ===================================================================
\* Properties of the query endpoints
\* ===================================================================

RECURSIVE HasPrefix(_, _)
\* str starts with prefix, character for character.
HasPrefix(str, prefix) ==
    IF prefix = <<>> THEN TRUE
    ELSE /\ str # <<>>
         /\ Head(str) = Head(prefix)
         /\ HasPrefix(Tail(str), Tail(prefix))

\* The rows a request asks for: those equal to the given filters, or those
\* whose routing key starts with "<category>.".
Asked(r) ==
    IF qreq.kind = "list"
    THEN /\ qreq.event_type.given => r.event_type = qreq.event_type.value
         /\ qreq.routing_key.given => r.routing_key = qreq.routing_key.value
    ELSE HasPrefix(Str(r.routing_key), qreq.category \o <<".">>)

\* C17: a query response is the rows asked for, newest first, sliced by
\* offset and limit.
C17_QueryResults ==
    qreq.kind # "none" =>
        qresp = Slice(Reverse(SelectSeq(records, Asked)),
                      qreq.offset, qreq.limit)

\* ===================================================================
\* Properties of the failure paths
\* ===================================================================

\* C21: the broker callback marks a connection of its snapshot dead exactly
\* when a send to it fails (its transport is closed), and only a connection
\* it marked dead for that reason is taken out of the topic's set and the
\* registry by a step of the callback.
C21_BrokerReapsOnlyFailedSends ==
    [][ /\ (bpc = "idle" /\ bpc' = "reap") =>
              \A c \in Subs(Head(queue).rk) : c \in bdead' <=> ~alive[c]
        /\ (bpc = "reap" /\ bdead' # bdead) =>
              \A c \in (connections \ connections')
                        \cup (topic_subscribers[btopic]
                                 \ topic_subscribers'[btopic]) : ~alive[c] ]_vars

\* The operation is inside its publish block.
InPublishBlock == rpc \in {"connect", "declare", "publish", "close", "fallback"}

\* C22: while an operation is in its publish block (broker attempt or HTTP
\* fallback) the change it made is committed, and an operation whose commit
\* raised has made no publish attempt.
C22_PublishOnlyAfterCommit ==
    /\ InPublishBlock => CommittedRow = session
    /\ (rpc = "done" /\ result = "raised_commit") =>
          ~callPub /\ callPost = "none"

\* The steps of the broker attempt.
BrokerSteps == {"connect", "declare", "publish", "close"}

\* C23: within one call the broker attempt starts once, before anything was
\* published or POSTed; the fallback is entered only from a step of the
\* broker attempt that failed; the POST is made once and, whether it
\* succeeds or fails, the publish block is left; a broker attempt that ran
\* to its end leaves the block without a POST.
C23_PublishStepsOrdered ==
    [][ /\ (rpc' = "connect" /\ rpc # "connect") =>
              /\ rpc \in {"idle", "done", "commit"}
              /\ ~callPub' /\ callPost' = "none"
        /\ (rpc' = "fallback" /\ rpc # "fallback") =>
              rpc \in BrokerSteps /\ callPost = "none"
        /\ (callPost' # callPost /\ calls' = calls) =>
              /\ rpc = "fallback" /\ callPost = "none"
              /\ rpc' = AfterPublish(op)
        /\ rpc = "fallback" => rpc' \notin BrokerSteps
        /\ (rpc \in BrokerSteps /\ rpc' \notin BrokerSteps \cup {"fallback"}) =>
              /\ rpc = "close" /\ callPost' = "none"
              /\ rpc' = AfterPublish(op) ]_vars

\* C23 witness: create_pedido has returned after its broker attempt and its
\* POST both failed: nothing reached the exchange or the Gateway.
C23_Witness ==
    /\ rpc = "done" /\ op = "create_pedido" /\ result = "entity"
    /\ ~callPub /\ callPost = "failed"
    /\ exchange = <<>> /\ posts = <<>>

\* C24: a message whose body is no JSON, or a JSON value that is no
\* object, and whose write the database did not refuse, has exactly one
\* row once the callback has acknowledged it: event_type unknown, the
\* message's routing key, the raw content as payload.
C24_MalformedStoredRaw ==
    \A e \in EventIds :
        ( /\ npub[e].body.kind \in {"value", "garbage"}
          /\ nacks[e] = 1
          /\ ntries[e] # <<"db_error">> ) =>
            /\ Cardinality(RowsOf(e)) = 1
            /\ \A i \in RowsOf(e) :
                  /\ records[i].event_type = T_unknown
                  /\ records[i].routing_key = npub[e].rk
                  /\ records[i].payload.raw

\* C25: when the consumer's connection is lost after it started consuming,
\* its thread is back in the connection retry loop, and whenever the broker
\* is reachable the thread eventually consumes.
C25_ReconnectsAfterLoss ==
    /\ [][(Consuming /\ ~Consuming') => npc' = "connect"]_vars
    /\ (brokerUp ~> Consuming)

\* ===================================================================
\* Properties of the connection lifecycle
\* ===================================================================

\* A fan-out has reaped the connection: it had registered, it is out of
\* the registry, and its handler has not ended.
Reaped(c) == c \in welcomed /\ c \notin connections /\ hpc[c] # "closed"

\* C26: no step puts a connection that a fan-out has reaped, and that is in
\* no subscriber set, into a subscriber set again.
C26_ReapedNeverResubscribed ==
    [][ \A c \in Conns :
          (Reaped(c) /\ TopicsOf(c) = {}) =>
              \A t \in SubTopics : c \notin topic_subscribers'[t] ]_vars

\* C27: the welcome frame is sent to a connection once, by the step that
\* follows its registration; every connection past that step has been sent
\* it; and no other frame (a subscribed ack or an echo of its handler, a
\* copy of an event) is sent to a connection that has not been sent it.
C27_WelcomeOnceAndFirst ==
    [][ \A c \in Conns :
          /\ (c \in welcomed' /\ hpc'[c] # hpc[c]) =>
                (c \in welcomed <=> hpc[c] # "welcome")
          /\ (c \in connections' \ connections) =>
                hpc'[c] = "welcome" /\ c \notin welcomed
          /\ hpc[c] \in {"recv", "sub_mid"} => c \in welcomed
          /\ (\E e \in EventIds : copies'[c][e] > copies[c][e]) =>
                c \in welcomed ]_vars

\* C27 witness: an event was published to the exchange, and looked up by
\* the callback, while a connection was registered and not yet welcomed;
\* the connection has since been sent the welcome frame and a copy of a
\* later event.
C27_Witness ==
    \E c \in Conns, e \in EventIds, f \in EventIds :
        /\ c \in welcomed /\ hpc[c] = "recv"
        /\ bpc = "acked" /\ bmsg.id = e
        /\ c \in published[e].subs /\ c \notin atPublish[e]
        /\ copies[c][e] = 0
        /\ f > e /\ copies[c][f] = 1

\* C28: every connection that is in some topic's subscriber set is in the
\* registry.
C28_SubscribersAreRegistered ==
    \A c \in Conns : TopicsOf(c) # {} => c \in connections

\* C29: a send of an HTTP sweep goes to a connection that is, at that
\* send, in the subscriber set of the sweep's topic.
C29_SentOnlyToCurrentSubscribers ==
    [][ \A c \in Conns, e \in EventIds :
          copies'[c][e] > copies[c][e] => c \in Subs(ptopic') ]_vars

\* ===================================================================
\* Properties of PedidoRepository
\* ===================================================================

\* The operation that returned has made a publish attempt for a
\* pedido.estado.actualizado event: the broker attempt published it or
\* failed into the HTTP fallback.
EstadoAttempt ==
    /\ callPub \/ callPost # "none"
    /\ PayloadOf(op) = EvEstado

\* The operation that returned has committed a change of estado.
ChangesEstado ==
    \/ op = "update_pedido" /\ "estado" \in DOMAIN upd
    \/ op = "cancelar_pedido"

\* C30: an operation of PedidoRepository that has committed and returned
\* the pedido has made a publish attempt for pedido.estado.actualizado
\* exactly when it changed estado (update_pedido with estado in the update,
\* cancelar_pedido).
C30_EstadoChangePublishes ==
    (rpc = "done" /\ result = "entity") => (EstadoAttempt <=> ChangesEstado)
====
